---- MODULE Spec2Model ----
(***************************************************************************)
(* State-machine model of the restaurant management API                    *)
(* (src/Restaurant: models.py, serializers.py, views.py).                  *)
(*                                                                         *)
(* Each HTTP handler is one atomic action; for the handlers whose          *)
(* interleavings matter there is a second form, one action per database    *)
(* statement (the *_load, *_save, ... actions), with the handler's local   *)
(* state kept in `requests`.  Money is counted in cents.                   *)
(* Rows are kept in sequences indexed by primary key; order items, which   *)
(* can be deleted, are a set of rows with ids drawn from a counter.        *)
(* The variable `last` records the operation that produced the current     *)
(* state and its outcome (the HTTP response class).                        *)
(***************************************************************************)
EXTENDS Integers, Sequences, FiniteSets, TLC

\* ------------------------------------------------------------------ bounds
NumTables       == 2
NumDates        == 2
NumTimes        == 1
MaxParty        == 2
MaxReservations == 2
NumMenu         == 1
MaxOrders       == 2
MaxLines        == 2
MaxItems        == 2
MaxQuantity     == 2
MaxInventory    == 2
MaxStock        == 3
MaxChange       == 2
MaxRequests     == 2

TableIds   == 1..NumTables
Dates      == 1..NumDates
Times      == 1..NumTimes
PartySizes == 1..MaxParty

MenuIds    == 1..NumMenu
\* Quantities are not validated by the handlers: zero and negative occur.
Quantities == -1..MaxQuantity
\* Prices in cents (tests.py: 4.99 and 20.00).
Prices     == {499, 2000}
\* Tips and discounts in cents (tests.py: 3.00 and 0.00).
Tips       == {0, 300}
Discounts  == {0, 100}

VARIABLES tables, reservations, menu, orders, order_items, next_item_id,
          payments, inventory, requests, today, last

vars == <<tables, reservations, menu, orders, order_items, next_item_id,
          payments, inventory, requests, today, last>>

resVars == <<reservations>>
ordVars == <<menu, orders, order_items, next_item_id>>
payVars == <<payments>>
invVars == <<inventory>>
\* The handlers that are in the middle of their sequence of database writes.
reqVars == <<requests>>

\* Request slots: handlers that can be in progress at the same time.
RequestIds == 1..MaxRequests

\* A slot with no handler in progress.
Idle == [pc |-> "idle"]

\* ------------------------------------------------------------- models.py
RESERVATION_STATUS == {"BOOKED", "COMPLETED", "CANCELLED"}

\* Reservation.status default
DefaultReservationStatus == "BOOKED"

\* A request body without the key "status".
NoStatus == "absent"

ResIds == 1..Len(reservations)

\* ------------------------------------------------------------ request data
ResFields == {"table", "date", "time", "party_size"}

\* A complete validated request body (POST, PUT).
FullData ==
    {[table |-> t, date |-> d, time |-> tm, party_size |-> n] :
        t \in TableIds, d \in Dates, tm \in Times, n \in PartySizes}

\* A PATCH body: any subset of the keys.
PartialData == {[f \in S |-> d[f]] : d \in FullData, S \in SUBSET ResFields}

\* data.get(k) is truthy: the key is present (validated values are never falsy).
Has(data, k) == k \in DOMAIN data

\* ------------------------------------------- ReservationSerializer.validate
CapacityExceeded(data) ==
    /\ Has(data, "party_size")
    /\ Has(data, "table")
    /\ data["party_size"] > tables[data["table"]].capacity

\* Mutant of existing_reservations: the status='BOOKED' filter is dropped.
existing_reservations_any_status(data, instance) ==
    {r \in ResIds :
        /\ reservations[r].table = data["table"]
        /\ reservations[r].date = data["date"]
        /\ reservations[r].time = data["time"]} \ instance

existing_reservations(data, instance) ==
    {r \in ResIds :
        /\ reservations[r].table = data["table"]
        /\ reservations[r].date = data["date"]
        /\ reservations[r].time = data["time"]
        /\ reservations[r].status = "BOOKED"} \ instance

SlotTaken(data, instance) ==
    /\ Has(data, "table")
    /\ Has(data, "date")
    /\ Has(data, "time")
    /\ existing_reservations(data, instance) # {}

\* instance is {} on create and {pk} on update.
validate(data, instance) ==
    IF CapacityExceeded(data) THEN "capacity_exceeded"
    ELSE IF SlotTaken(data, instance) THEN "already_reserved"
    ELSE "valid"

\* ModelSerializer.update: every key of the validated data is assigned.
Assign(row, data, st) ==
    [table      |-> IF Has(data, "table") THEN data["table"] ELSE row.table,
     date       |-> IF Has(data, "date") THEN data["date"] ELSE row.date,
     time       |-> IF Has(data, "time") THEN data["time"] ELSE row.time,
     party_size |-> IF Has(data, "party_size") THEN data["party_size"] ELSE row.party_size,
     status     |-> IF st = NoStatus THEN row.status ELSE st]

Response(op, id, result) == [op |-> op, id |-> id, result |-> result]

\* ------------------------------------------------------ ReservationViewSet
\* POST /reservations/
ReservationCreate(data, st) ==
    /\ IF validate(data, {}) = "valid"
       THEN /\ Len(reservations) < MaxReservations
            /\ reservations' = Append(reservations,
                   Assign([table |-> 0, date |-> 0, time |-> 0, party_size |-> 0,
                           status |-> DefaultReservationStatus], data, st))
            /\ last' = Response("reservation_create", Len(reservations) + 1, "created")
       ELSE /\ UNCHANGED reservations
            /\ last' = Response("reservation_create", 0, validate(data, {}))
    /\ UNCHANGED <<tables, ordVars, payVars, invVars, reqVars, today>>

\* ---- POST /reservations/, one database statement at a time: is_valid()
\* runs the SELECT of validate, serializer.save() runs the INSERT later, and
\* no transaction or lock spans the two.

\* The constraints Reservation.Meta declares for the table (it has only
\* `ordering`).
ReservationConstraints == {}

\* The INSERT is refused by the database.
IntegrityError(row) ==
    /\ "unique_booked_slot" \in ReservationConstraints
    /\ row.status = "BOOKED"
    /\ \E r \in ResIds :
        /\ reservations[r].status = "BOOKED"
        /\ reservations[r].table = row.table
        /\ reservations[r].date = row.date
        /\ reservations[r].time = row.time

\* serializer.is_valid(raise_exception=True)
reservation_create_validate(r, data, st) ==
    /\ requests[r] = Idle
    /\ IF validate(data, {}) = "valid"
       THEN /\ requests' = [requests EXCEPT ![r] =
                   [pc |-> "insert",
                    row |-> Assign([table |-> 0, date |-> 0, time |-> 0,
                                    party_size |-> 0,
                                    status |-> DefaultReservationStatus], data, st)]]
            /\ last' = Response("reservation_create", 0, "validated")
       ELSE /\ UNCHANGED requests
            /\ last' = Response("reservation_create", 0, validate(data, {}))
    /\ UNCHANGED <<tables, resVars, ordVars, payVars, invVars, today>>

\* serializer.save()
reservation_create_insert(r) ==
    /\ requests[r].pc = "insert"
    /\ IF IntegrityError(requests[r].row)
       THEN /\ UNCHANGED reservations
            /\ last' = Response("reservation_create", 0, "IntegrityError")
       ELSE /\ Len(reservations) < MaxReservations
            /\ reservations' = Append(reservations, requests[r].row)
            /\ last' = Response("reservation_create", Len(reservations) + 1, "created")
    /\ requests' = [requests EXCEPT ![r] = Idle]
    /\ UNCHANGED <<tables, ordVars, payVars, invVars, today>>

\* PUT /reservations/{pk}/
ReservationUpdate(pk, data, st) ==
    /\ pk \in ResIds
    /\ IF validate(data, {pk}) = "valid"
       THEN /\ reservations' = [reservations EXCEPT ![pk] = Assign(@, data, st)]
            /\ last' = Response("reservation_update", pk, "ok")
       ELSE /\ UNCHANGED reservations
            /\ last' = Response("reservation_update", pk, validate(data, {pk}))
    /\ UNCHANGED <<tables, ordVars, payVars, invVars, reqVars, today>>

\* PATCH /reservations/{pk}/
ReservationPartialUpdate(pk, data, st) ==
    /\ pk \in ResIds
    /\ IF validate(data, {pk}) = "valid"
       THEN /\ reservations' = [reservations EXCEPT ![pk] = Assign(@, data, st)]
            /\ last' = Response("reservation_partial_update", pk, "ok")
       ELSE /\ UNCHANGED reservations
            /\ last' = Response("reservation_partial_update", pk, validate(data, {pk}))
    /\ UNCHANGED <<tables, ordVars, payVars, invVars, reqVars, today>>

\* POST /reservations/{pk}/cancel/
ReservationCancel(pk) ==
    /\ pk \in ResIds
    /\ reservations' = [reservations EXCEPT ![pk].status = "CANCELLED"]
    /\ last' = Response("reservation_cancel", pk, "ok")
    /\ UNCHANGED <<tables, ordVars, payVars, invVars, reqVars, today>>

\* POST /reservations/{pk}/complete/
ReservationComplete(pk) ==
    /\ pk \in ResIds
    /\ reservations' = [reservations EXCEPT ![pk].status = "COMPLETED"]
    /\ last' = Response("reservation_complete", pk, "ok")
    /\ UNCHANGED <<tables, ordVars, payVars, invVars, reqVars, today>>

\* ------------------------------------------------------------ TableViewSet
\* POST /tables/{pk}/mark_available/
mark_available(pk) ==
    /\ tables' = [tables EXCEPT ![pk].is_available = TRUE]
    /\ last' = Response("mark_available", pk, "ok")
    /\ UNCHANGED <<resVars, ordVars, payVars, invVars, reqVars, today>>

\* POST /tables/{pk}/mark_unavailable/
mark_unavailable(pk) ==
    /\ tables' = [tables EXCEPT ![pk].is_available = FALSE]
    /\ last' = Response("mark_unavailable", pk, "ok")
    /\ UNCHANGED <<resVars, ordVars, payVars, invVars, reqVars, today>>

\* ------------------------------------------------------- MenuItemViewSet
\* PUT /menu/{pk}/ (price >= 0.01 by the field's validator)
MenuItemUpdate(pk, price, available) ==
    /\ menu' = [menu EXCEPT ![pk] = [price |-> price, available |-> available]]
    /\ last' = Response("menu_update", pk, "ok")
    /\ UNCHANGED <<tables, resVars, orders, order_items, next_item_id, payVars, invVars, reqVars, today>>

\* ---------------------------------------------------------------- orders
ORDER_STATUS == {"PENDING", "IN_PROGRESS", "SERVED", "CANCELLED"}

OrderIds == 1..Len(orders)

ItemsOf(items, pk) == {i \in items : i.order = pk}

RECURSIVE SumSubtotals(_)
\* sum(item.price * item.quantity for item in ...)
SumSubtotals(S) ==
    IF S = {} THEN 0
    ELSE LET i == CHOOSE x \in S : TRUE
         IN  i.price * i.quantity + SumSubtotals(S \ {i})

\* Mutant of calculate_total: the quantity is left out of the sum.
calculate_total_unit_prices(ords, items, pk) ==
    [ords EXCEPT ![pk].total_price =
        SumSubtotals({[i EXCEPT !.quantity = 1] : i \in ItemsOf(items, pk)})]

\* Mutant of calculate_total: items are priced at the current menu price.
calculate_total_menu_prices(ords, items, pk) ==
    [ords EXCEPT ![pk].total_price =
        SumSubtotals({[i EXCEPT !.price = menu[i.menu_item].price] :
                        i \in ItemsOf(items, pk)})]

\* Order.calculate_total: total_price of order pk recomputed from its rows in
\* `items` and saved.
calculate_total(ords, items, pk) ==
    [ords EXCEPT ![pk].total_price = SumSubtotals(ItemsOf(items, pk))]

\* ------------------------------------------------- OrderCreateSerializer
LineError(line) ==
    IF line.menu_item_id \notin MenuIds THEN "does_not_exist"
    ELSE IF ~menu[line.menu_item_id].available THEN "unavailable"
    ELSE "valid"

\* Mutant of validate_items: the empty list is accepted.
validate_items_allows_empty(value) ==
    IF \A k \in 1..Len(value) : LineError(value[k]) = "valid" THEN "valid"
    ELSE LineError(value[CHOOSE k \in 1..Len(value) :
                            /\ LineError(value[k]) # "valid"
                            /\ \A j \in 1..(k - 1) : LineError(value[j]) = "valid"])

\* The error of the first bad line, as the loop raises it.
validate_items(value) ==
    IF value = <<>> THEN "empty"
    ELSE IF \A k \in 1..Len(value) : LineError(value[k]) = "valid" THEN "valid"
    ELSE LineError(value[CHOOSE k \in 1..Len(value) :
                            /\ LineError(value[k]) # "valid"
                            /\ \A j \in 1..(k - 1) : LineError(value[j]) = "valid"])

\* Mutant of NewOrderItem: the quantity of the line is not stored.
NewOrderItem_unit_quantity(pk, items_data, k) ==
    [id        |-> next_item_id + k - 1,
     order     |-> pk,
     menu_item |-> items_data[k].menu_item_id,
     quantity  |-> 1,
     price     |-> menu[items_data[k].menu_item_id].price]

\* The row OrderItem.objects.create writes for line k of a new order pk.
NewOrderItem(pk, items_data, k) ==
    [id        |-> next_item_id + k - 1,
     order     |-> pk,
     menu_item |-> items_data[k].menu_item_id,
     quantity  |-> items_data[k].quantity,
     price     |-> menu[items_data[k].menu_item_id].price]

RECURSIVE RunningTotal(_, _, _)
\* total after the first k iterations of `total += order_item.price * order_item.quantity`
RunningTotal(pk, items_data, k) ==
    IF k = 0 THEN 0
    ELSE RunningTotal(pk, items_data, k - 1)
         + NewOrderItem(pk, items_data, k).price * NewOrderItem(pk, items_data, k).quantity

\* POST /orders/
OrderCreate(table, items_data) ==
    /\ Len(orders) < MaxOrders
    /\ IF validate_items(items_data) = "valid"
       THEN LET pk == Len(orders) + 1 IN
            /\ next_item_id + Len(items_data) - 1 <= MaxItems
            /\ orders' = Append(orders,
                   [table |-> table, status |-> "PENDING", date |-> today,
                    total_price |-> RunningTotal(pk, items_data, Len(items_data))])
            /\ order_items' = order_items \cup
                   {NewOrderItem(pk, items_data, k) : k \in 1..Len(items_data)}
            /\ next_item_id' = next_item_id + Len(items_data)
            /\ tables' = [tables EXCEPT ![table].is_available = FALSE]
            /\ last' = Response("order_create", pk, "created")
       ELSE /\ UNCHANGED <<orders, order_items, next_item_id, tables>>
            /\ last' = Response("order_create", 0, validate_items(items_data))
    /\ UNCHANGED <<resVars, menu, payVars, invVars, reqVars, today>>

\* ------------------------------------------------------------ OrderViewSet
\* Mutant of update_status: the table is freed on every accepted status.
update_status_always_frees(pk, new_status) ==
    /\ pk \in OrderIds
    /\ IF new_status \notin ORDER_STATUS
       THEN /\ UNCHANGED <<orders, tables>>
            /\ last' = Response("update_status", pk, "invalid_status")
       ELSE /\ orders' = [orders EXCEPT ![pk].status = new_status]
            /\ tables' = [tables EXCEPT ![orders[pk].table].is_available = TRUE]
            /\ last' = Response("update_status", pk, "ok")
    /\ UNCHANGED <<resVars, menu, order_items, next_item_id, payVars, invVars, reqVars, today>>

\* PATCH /orders/{pk}/update_status/
update_status(pk, new_status) ==
    /\ pk \in OrderIds
    /\ IF new_status \notin ORDER_STATUS
       THEN /\ UNCHANGED <<orders, tables>>
            /\ last' = Response("update_status", pk, "invalid_status")
       ELSE /\ orders' = [orders EXCEPT ![pk].status = new_status]
            /\ tables' = IF new_status \in {"SERVED", "CANCELLED"}
                         THEN [tables EXCEPT ![orders[pk].table].is_available = TRUE]
                         ELSE tables
            /\ last' = Response("update_status", pk, "ok")
    /\ UNCHANGED <<resVars, menu, order_items, next_item_id, payVars, invVars, reqVars, today>>

\* POST /orders/{pk}/add_item/
add_item(pk, menu_item_id, quantity) ==
    /\ pk \in OrderIds
    /\ IF orders[pk].status \in {"SERVED", "CANCELLED"}
       THEN /\ UNCHANGED <<orders, order_items, next_item_id>>
            /\ last' = Response("add_item", pk, "order_closed")
       ELSE IF ~(menu_item_id \in MenuIds /\ menu[menu_item_id].available)
       THEN /\ UNCHANGED <<orders, order_items, next_item_id>>
            /\ last' = Response("add_item", pk, "not_found")
       ELSE LET order_item == [id        |-> next_item_id,
                               order     |-> pk,
                               menu_item |-> menu_item_id,
                               quantity  |-> quantity,
                               price     |-> menu[menu_item_id].price]
            IN  /\ next_item_id <= MaxItems
                /\ order_items' = order_items \cup {order_item}
                /\ next_item_id' = next_item_id + 1
                /\ orders' = calculate_total(orders, order_items', pk)
                /\ last' = Response("add_item", pk, "created")
    /\ UNCHANGED <<tables, resVars, menu, payVars, invVars, reqVars, today>>

\* Mutant of remove_item: the item is looked up by id alone, in any order.
remove_item_any_order(pk, item_id) ==
    /\ pk \in OrderIds
    /\ IF orders[pk].status \in {"SERVED", "CANCELLED"}
       THEN /\ UNCHANGED <<orders, order_items>>
            /\ last' = Response("remove_item", pk, "order_closed")
       ELSE IF ~(\E i \in order_items : i.id = item_id)
       THEN /\ UNCHANGED <<orders, order_items>>
            /\ last' = Response("remove_item", pk, "not_found")
       ELSE /\ order_items' = {i \in order_items : i.id # item_id}
            /\ orders' = calculate_total(orders, order_items', pk)
            /\ last' = Response("remove_item", pk, "ok")
    /\ UNCHANGED <<tables, resVars, menu, next_item_id, payVars, invVars, reqVars, today>>

\* DELETE /orders/{pk}/remove_item/
remove_item(pk, item_id) ==
    /\ pk \in OrderIds
    /\ IF orders[pk].status \in {"SERVED", "CANCELLED"}
       THEN /\ UNCHANGED <<orders, order_items>>
            /\ last' = Response("remove_item", pk, "order_closed")
       ELSE IF ~(\E i \in order_items : i.id = item_id /\ i.order = pk)
       THEN /\ UNCHANGED <<orders, order_items>>
            /\ last' = Response("remove_item", pk, "not_found")
       ELSE /\ order_items' = {i \in order_items : ~(i.id = item_id /\ i.order = pk)}
            /\ orders' = calculate_total(orders, order_items', pk)
            /\ last' = Response("remove_item", pk, "ok")
    /\ UNCHANGED <<tables, resVars, menu, next_item_id, payVars, invVars, reqVars, today>>

\* ---- OrderViewSet handlers, one database statement at a time.  No handler
\* opens a transaction; `order` is the row read by get_object(), and every
\* order.save() writes all columns of that in-memory row.

\* add_item: get_object(), the status check and the menu item lookup.
add_item_load(r, pk, menu_item_id, quantity) ==
    /\ requests[r] = Idle
    /\ pk \in OrderIds
    /\ IF orders[pk].status \in {"SERVED", "CANCELLED"}
       THEN /\ UNCHANGED requests
            /\ last' = Response("add_item", pk, "order_closed")
       ELSE IF ~(menu_item_id \in MenuIds /\ menu[menu_item_id].available)
       THEN /\ UNCHANGED requests
            /\ last' = Response("add_item", pk, "not_found")
       ELSE /\ requests' = [requests EXCEPT ![r] =
                   [pc |-> "create_item", op |-> "add_item", pk |-> pk,
                    order |-> orders[pk], menu_item |-> menu_item_id,
                    quantity |-> quantity, price |-> menu[menu_item_id].price]]
            /\ last' = Response("add_item", pk, "loaded")
    /\ UNCHANGED <<tables, resVars, ordVars, payVars, invVars, today>>

\* add_item: OrderItem.objects.create(...)
add_item_create(r) ==
    /\ requests[r].pc = "create_item"
    /\ next_item_id <= MaxItems
    /\ order_items' = order_items \cup
           {[id |-> next_item_id, order |-> requests[r].pk,
             menu_item |-> requests[r].menu_item,
             quantity |-> requests[r].quantity, price |-> requests[r].price]}
    /\ next_item_id' = next_item_id + 1
    /\ requests' = [requests EXCEPT ![r] =
           [pc |-> "read_items", op |-> "add_item", pk |-> requests[r].pk,
            order |-> requests[r].order]]
    /\ last' = Response("add_item", requests[r].pk, "item_created")
    /\ UNCHANGED <<tables, resVars, menu, orders, payVars, invVars, today>>

\* remove_item: get_object() and the status check.
remove_item_load(r, pk, item_id) ==
    /\ requests[r] = Idle
    /\ pk \in OrderIds
    /\ IF orders[pk].status \in {"SERVED", "CANCELLED"}
       THEN /\ UNCHANGED requests
            /\ last' = Response("remove_item", pk, "order_closed")
       ELSE /\ requests' = [requests EXCEPT ![r] =
                   [pc |-> "delete_item", op |-> "remove_item", pk |-> pk,
                    order |-> orders[pk], item_id |-> item_id]]
            /\ last' = Response("remove_item", pk, "loaded")
    /\ UNCHANGED <<tables, resVars, ordVars, payVars, invVars, today>>

\* remove_item: OrderItem.objects.get(id=item_id, order=order) and delete().
remove_item_delete(r) ==
    /\ requests[r].pc = "delete_item"
    /\ IF ~(\E i \in order_items :
              i.id = requests[r].item_id /\ i.order = requests[r].pk)
       THEN /\ UNCHANGED order_items
            /\ requests' = [requests EXCEPT ![r] = Idle]
            /\ last' = Response("remove_item", requests[r].pk, "not_found")
       ELSE /\ order_items' = {i \in order_items :
                                 ~(i.id = requests[r].item_id /\ i.order = requests[r].pk)}
            /\ requests' = [requests EXCEPT ![r] =
                   [pc |-> "read_items", op |-> "remove_item", pk |-> requests[r].pk,
                    order |-> requests[r].order]]
            /\ last' = Response("remove_item", requests[r].pk, "item_deleted")
    /\ UNCHANGED <<tables, resVars, menu, orders, next_item_id, payVars, invVars, today>>

\* calculate_total: the items are read and summed into self.total_price.
calculate_total_read(r) ==
    /\ requests[r].pc = "read_items"
    /\ requests' = [requests EXCEPT ![r] =
           [pc |-> "save_order", op |-> requests[r].op, pk |-> requests[r].pk,
            order |-> [requests[r].order EXCEPT !.total_price =
                          SumSubtotals(ItemsOf(order_items, requests[r].pk))]]]
    /\ last' = Response(requests[r].op, requests[r].pk, "items_read")
    /\ UNCHANGED <<tables, resVars, ordVars, payVars, invVars, today>>

\* calculate_total: self.save() writes the whole in-memory row.
calculate_total_save(r) ==
    /\ requests[r].pc = "save_order"
    /\ orders' = [orders EXCEPT ![requests[r].pk] = requests[r].order]
    /\ requests' = [requests EXCEPT ![r] = Idle]
    /\ last' = Response(requests[r].op, requests[r].pk,
                        IF requests[r].op = "add_item" THEN "created" ELSE "ok")
    /\ UNCHANGED <<tables, resVars, menu, order_items, next_item_id, payVars, invVars, today>>

\* update_status: get_object() and the choice check.
update_status_load(r, pk, new_status) ==
    /\ requests[r] = Idle
    /\ pk \in OrderIds
    /\ IF new_status \notin ORDER_STATUS
       THEN /\ UNCHANGED requests
            /\ last' = Response("update_status", pk, "invalid_status")
       ELSE /\ requests' = [requests EXCEPT ![r] =
                   [pc |-> "save_status", op |-> "update_status", pk |-> pk,
                    order |-> [orders[pk] EXCEPT !.status = new_status]]]
            /\ last' = Response("update_status", pk, "loaded")
    /\ UNCHANGED <<tables, resVars, ordVars, payVars, invVars, today>>

\* update_status: order.save()
update_status_save(r) ==
    /\ requests[r].pc = "save_status"
    /\ orders' = [orders EXCEPT ![requests[r].pk] = requests[r].order]
    /\ IF requests[r].order.status \in {"SERVED", "CANCELLED"}
       THEN /\ requests' = [requests EXCEPT ![r].pc = "free_table"]
            /\ last' = Response("update_status", requests[r].pk, "order_saved")
       ELSE /\ requests' = [requests EXCEPT ![r] = Idle]
            /\ last' = Response("update_status", requests[r].pk, "ok")
    /\ UNCHANGED <<tables, resVars, menu, order_items, next_item_id, payVars, invVars, today>>

\* update_status: order.table.is_available = True; order.table.save()
update_status_free_table(r) ==
    /\ requests[r].pc = "free_table"
    /\ tables' = [tables EXCEPT ![requests[r].order.table].is_available = TRUE]
    /\ requests' = [requests EXCEPT ![r] = Idle]
    /\ last' = Response("update_status", requests[r].pk, "ok")
    /\ UNCHANGED <<resVars, ordVars, payVars, invVars, today>>

\* -------------------------------------------------------------- payments
PAYMENT_STATUS == {"PENDING", "COMPLETED", "FAILED", "REFUNDED"}

PaymentIds == 1..Len(payments)

\* hasattr(order, 'payment')
HasPayment(order) == \E p \in PaymentIds : payments[p].order = order

\* Payment.calculate_final_amount
calculate_final_amount(p) ==
    [p EXCEPT !.final_amount =
        p.amount + p.tip_amount + p.tax_amount - p.discount_amount]

\* Payment.objects.create(order=..., amount=order.total_price, payment_status='PENDING')
\* followed by calculate_final_amount(): a payment row written through the
\* ORM, every other column at its default.
PaymentObjectsCreate(order) ==
    /\ order \in OrderIds
    /\ ~HasPayment(order)
    /\ payments' = Append(payments, calculate_final_amount(
           [order |-> order, amount |-> orders[order].total_price,
            tip_amount |-> 0, tax_amount |-> 0, discount_amount |-> 0,
            final_amount |-> 0, payment_status |-> "PENDING",
            transaction_id |-> "null"]))
    /\ last' = Response("payment_objects_create", Len(payments) + 1, "created")
    /\ UNCHANGED <<tables, resVars, ordVars, invVars, reqVars, today>>

\* ----------------------------------------------- PaymentCreateSerializer
\* Mutant of validate_order: the existing-payment check is dropped.
validate_order_no_payment_check(value) ==
    IF orders[value].status = "CANCELLED" THEN "cancelled_order" ELSE "valid"

\* Mutant of validate_order: the cancelled-order check is dropped.
validate_order_no_status_check(value) ==
    IF HasPayment(value) THEN "already_has_payment" ELSE "valid"

validate_order(value) ==
    IF HasPayment(value) THEN "already_has_payment"
    ELSE IF orders[value].status = "CANCELLED" THEN "cancelled_order"
    ELSE "valid"

\* The 8% of `order.total_price * 0.08`.
TaxPercent == 8

\* order.total_price is read from the database as a decimal.Decimal.
Decimal(cents) == [type |-> "Decimal", value |-> cents]

\* The literal 0.08 is a Python float.
TaxRate == [type |-> "float", value |-> TaxPercent]

\* Python's a * b for a money amount and a rate in percent: Decimal.__mul__
\* accepts int and Decimal operands only, so Decimal * float raises TypeError.
Mul(a, b) ==
    IF {a.type, b.type} = {"Decimal", "float"}
    THEN [type |-> "TypeError", value |-> 0]
    ELSE [type |-> a.type, value |-> (a.value * b.value) \div 100]

\* POST /payments/
PaymentCreate(order, tip_amount, discount_amount) ==
    /\ order \in OrderIds
    /\ LET tax_amount == Mul(Decimal(orders[order].total_price), TaxRate) IN
       IF validate_order(order) # "valid"
       THEN /\ UNCHANGED payments
            /\ last' = Response("payment_create", 0, validate_order(order))
       ELSE IF tax_amount.type = "TypeError"
       THEN /\ UNCHANGED payments
            /\ last' = Response("payment_create", 0, "TypeError")
       ELSE /\ payments' = Append(payments, calculate_final_amount(
                   [order |-> order, amount |-> orders[order].total_price,
                    tip_amount |-> tip_amount, tax_amount |-> tax_amount.value,
                    discount_amount |-> discount_amount,
                    final_amount |-> 0, payment_status |-> "PENDING",
                    transaction_id |-> "null"]))
            /\ last' = Response("payment_create", Len(payments) + 1, "created")
    /\ UNCHANGED <<tables, resVars, ordVars, invVars, reqVars, today>>

\* ---------------------------------------------------------- PaymentViewSet
\* PATCH /payments/{pk}/ with one money field (PaymentSerializer; final_amount
\* is read-only and ModelSerializer.update only assigns the given keys).
PaymentPartialUpdate(pk, field, value) ==
    /\ pk \in PaymentIds
    /\ payments' = [payments EXCEPT ![pk][field] = value]
    /\ last' = Response("payment_partial_update", pk, "ok")
    /\ UNCHANGED <<tables, resVars, ordVars, invVars, reqVars, today>>

\* Mutant of complete_payment: the table is not freed.
complete_payment_keeps_table(pk, transaction_id) ==
    /\ pk \in PaymentIds
    /\ IF payments[pk].payment_status = "COMPLETED"
       THEN /\ UNCHANGED <<payments, orders>>
            /\ last' = Response("complete_payment", pk, "already_completed")
       ELSE /\ payments' = [payments EXCEPT ![pk].payment_status = "COMPLETED",
                                            ![pk].transaction_id = transaction_id]
            /\ orders' = [orders EXCEPT ![payments[pk].order].status = "SERVED"]
            /\ last' = Response("complete_payment", pk, "ok")
    /\ UNCHANGED <<tables, resVars, menu, order_items, next_item_id, invVars, reqVars, today>>

\* Mutant of complete_payment: the already-completed guard is dropped.
complete_payment_unguarded(pk, transaction_id) ==
    /\ pk \in PaymentIds
    /\ payments' = [payments EXCEPT ![pk].payment_status = "COMPLETED",
                                    ![pk].transaction_id = transaction_id]
    /\ orders' = [orders EXCEPT ![payments[pk].order].status = "SERVED"]
    /\ tables' = [tables EXCEPT
                    ![orders[payments[pk].order].table].is_available = TRUE]
    /\ last' = Response("complete_payment", pk,
                        IF payments[pk].payment_status = "COMPLETED"
                        THEN "already_completed" ELSE "ok")
    /\ UNCHANGED <<resVars, menu, order_items, next_item_id, invVars, reqVars, today>>

\* POST /payments/{pk}/complete_payment/
complete_payment(pk, transaction_id) ==
    /\ pk \in PaymentIds
    /\ IF payments[pk].payment_status = "COMPLETED"
       THEN /\ UNCHANGED <<payments, orders, tables>>
            /\ last' = Response("complete_payment", pk, "already_completed")
       ELSE /\ payments' = [payments EXCEPT ![pk].payment_status = "COMPLETED",
                                            ![pk].transaction_id = transaction_id]
            /\ orders' = [orders EXCEPT ![payments[pk].order].status = "SERVED"]
            /\ tables' = [tables EXCEPT
                            ![orders[payments[pk].order].table].is_available = TRUE]
            /\ last' = Response("complete_payment", pk, "ok")
    /\ UNCHANGED <<resVars, menu, order_items, next_item_id, invVars, reqVars, today>>

\* Mutant of refund: the COMPLETED guard is dropped.
refund_any_status(pk) ==
    /\ pk \in PaymentIds
    /\ payments' = [payments EXCEPT ![pk].payment_status = "REFUNDED"]
    /\ orders' = [orders EXCEPT ![payments[pk].order].status = "CANCELLED"]
    /\ last' = Response("refund", pk,
                        IF payments[pk].payment_status # "COMPLETED"
                        THEN "not_completed" ELSE "ok")
    /\ UNCHANGED <<tables, resVars, menu, order_items, next_item_id, invVars, reqVars, today>>

\* Mutant of refund: the table is freed, as update_status does on CANCELLED.
refund_frees_table(pk) ==
    /\ pk \in PaymentIds
    /\ IF payments[pk].payment_status # "COMPLETED"
       THEN /\ UNCHANGED <<payments, orders, tables>>
            /\ last' = Response("refund", pk, "not_completed")
       ELSE /\ payments' = [payments EXCEPT ![pk].payment_status = "REFUNDED"]
            /\ orders' = [orders EXCEPT ![payments[pk].order].status = "CANCELLED"]
            /\ tables' = [tables EXCEPT
                            ![orders[payments[pk].order].table].is_available = TRUE]
            /\ last' = Response("refund", pk, "ok")
    /\ UNCHANGED <<resVars, menu, order_items, next_item_id, invVars, reqVars, today>>

\* ---- complete_payment, one database statement at a time.  The handler runs
\* outside any transaction: each save() is committed when it returns, and
\* other requests are served between two saves.

\* payment = self.get_object() and the already-completed check.
complete_payment_load(r, pk, transaction_id) ==
    /\ requests[r] = Idle
    /\ pk \in PaymentIds
    /\ IF payments[pk].payment_status = "COMPLETED"
       THEN /\ UNCHANGED requests
            /\ last' = Response("complete_payment", pk, "already_completed")
       ELSE /\ requests' = [requests EXCEPT ![r] =
                   [pc |-> "save_payment", pk |-> pk,
                    payment |-> [payments[pk] EXCEPT
                                   !.payment_status = "COMPLETED",
                                   !.transaction_id = transaction_id]]]
            /\ last' = Response("complete_payment", pk, "loaded")
    /\ UNCHANGED <<tables, resVars, ordVars, payVars, invVars, today>>

\* payment.save(): the loaded row, with the two assignments, is written.
complete_payment_save_payment(r) ==
    /\ requests[r].pc = "save_payment"
    /\ payments' = [payments EXCEPT ![requests[r].pk] = requests[r].payment]
    /\ requests' = [requests EXCEPT ![r].pc = "save_order"]
    /\ last' = Response("complete_payment", requests[r].pk, "payment_saved")
    /\ UNCHANGED <<tables, resVars, ordVars, invVars, today>>

\* payment.order is fetched, its status set and the row saved.
complete_payment_save_order(r) ==
    /\ requests[r].pc = "save_order"
    /\ orders' = [orders EXCEPT ![requests[r].payment.order].status = "SERVED"]
    /\ requests' = [requests EXCEPT ![r].pc = "save_table"]
    /\ last' = Response("complete_payment", requests[r].pk, "order_saved")
    /\ UNCHANGED <<tables, resVars, menu, order_items, next_item_id, payVars, invVars, today>>

\* payment.order.table is fetched, freed and saved; the response is sent.
complete_payment_save_table(r) ==
    /\ requests[r].pc = "save_table"
    /\ tables' = [tables EXCEPT
                    ![orders[requests[r].payment.order].table].is_available = TRUE]
    /\ requests' = [requests EXCEPT ![r] = Idle]
    /\ last' = Response("complete_payment", requests[r].pk, "ok")
    /\ UNCHANGED <<resVars, ordVars, payVars, invVars, today>>

\* The handler ends before its next statement (the worker is killed, or a
\* save raises): nothing undoes the saves already committed.
complete_payment_stops(r) ==
    /\ requests[r] # Idle
    /\ requests' = [requests EXCEPT ![r] = Idle]
    /\ last' = Response("complete_payment", requests[r].pk, "stopped")
    /\ UNCHANGED <<tables, resVars, ordVars, payVars, invVars, today>>

\* POST /payments/{pk}/refund/
refund(pk) ==
    /\ pk \in PaymentIds
    /\ IF payments[pk].payment_status # "COMPLETED"
       THEN /\ UNCHANGED <<payments, orders>>
            /\ last' = Response("refund", pk, "not_completed")
       ELSE /\ payments' = [payments EXCEPT ![pk].payment_status = "REFUNDED"]
            /\ orders' = [orders EXCEPT ![payments[pk].order].status = "CANCELLED"]
            /\ last' = Response("refund", pk, "ok")
    /\ UNCHANGED <<tables, resVars, menu, order_items, next_item_id, invVars, reqVars, today>>

\* --------------------------------------------------------------- inventory
InventoryIds == 1..Len(inventory)

\* Integers a request can carry for quantity and reorder_level.
StockInputs == -1..MaxStock

\* Integers a request can carry for quantity_change and for restock's quantity.
QuantityChanges == (0 - MaxChange)..MaxChange

\* request.data.get(key) hands the handler the parsed body value as it is: a
\* Python int for a number of a JSON body, a str for a field of a form or
\* multipart body (the encoding the test client uses unless format='json').
JsonNumber(n) == [type |-> "int", value |-> n]
FormField(n)  == [type |-> "str", value |-> n]

RequestNumbers == {JsonNumber(n) : n \in QuantityChanges}
                    \cup {FormField(n) : n \in QuantityChanges}

\* MinValueValidator(0) on quantity and on reorder_level, run by the serializer.
MinValueValidator(value) == value >= 0

\* POST /inventory/
InventoryCreate(quantity, reorder_level) ==
    /\ IF MinValueValidator(quantity) /\ MinValueValidator(reorder_level)
       THEN /\ Len(inventory) < MaxInventory
            /\ inventory' = Append(inventory,
                   [quantity |-> quantity, reorder_level |-> reorder_level])
            /\ last' = Response("inventory_create", Len(inventory) + 1, "created")
       ELSE /\ UNCHANGED inventory
            /\ last' = Response("inventory_create", 0, "invalid")
    /\ UNCHANGED <<tables, resVars, ordVars, payVars, reqVars, today>>

\* PATCH /inventory/{pk}/ with one of quantity, reorder_level.
InventoryPartialUpdate(pk, field, value) ==
    /\ pk \in InventoryIds
    /\ IF MinValueValidator(value)
       THEN /\ inventory' = [inventory EXCEPT ![pk][field] = value]
            /\ last' = Response("inventory_partial_update", pk, "ok")
       ELSE /\ UNCHANGED inventory
            /\ last' = Response("inventory_partial_update", pk, "invalid")
    /\ UNCHANGED <<tables, resVars, ordVars, payVars, reqVars, today>>

\* Mutant of update_quantity: the result is saved without the sign check.
update_quantity_unchecked(pk, quantity_change) ==
    /\ pk \in InventoryIds
    /\ IF quantity_change.type = "str"
       THEN /\ UNCHANGED inventory
            /\ last' = Response("update_quantity", pk, "TypeError")
       ELSE /\ inventory[pk].quantity + quantity_change.value <= MaxStock
            /\ inventory' = [inventory EXCEPT ![pk].quantity = @ + quantity_change.value]
            /\ last' = Response("update_quantity", pk, "ok")
    /\ UNCHANGED <<tables, resVars, ordVars, payVars, reqVars, today>>

\* PATCH /inventory/{pk}/update_quantity/
\* `inventory.quantity + quantity_change` is int + str for a form field,
\* which raises TypeError before anything is saved.
update_quantity(pk, quantity_change) ==
    /\ pk \in InventoryIds
    /\ IF quantity_change.type = "str"
       THEN /\ UNCHANGED inventory
            /\ last' = Response("update_quantity", pk, "TypeError")
       ELSE LET new_quantity == inventory[pk].quantity + quantity_change.value IN
            IF new_quantity < 0
            THEN /\ UNCHANGED inventory
                 /\ last' = Response("update_quantity", pk, "insufficient")
            ELSE /\ new_quantity <= MaxStock
                 /\ inventory' = [inventory EXCEPT ![pk].quantity = new_quantity]
                 /\ last' = Response("update_quantity", pk, "ok")
    /\ UNCHANGED <<tables, resVars, ordVars, payVars, reqVars, today>>

\* POST /inventory/{pk}/restock/
\* `quantity <= 0` is str <= int for a form field, which raises TypeError.
restock(pk, quantity) ==
    /\ pk \in InventoryIds
    /\ IF quantity.type = "str"
       THEN /\ UNCHANGED inventory
            /\ last' = Response("restock", pk, "TypeError")
       ELSE IF quantity.value <= 0
       THEN /\ UNCHANGED inventory
            /\ last' = Response("restock", pk, "not_positive")
       ELSE /\ inventory[pk].quantity + quantity.value <= MaxStock
            /\ inventory' = [inventory EXCEPT ![pk].quantity = @ + quantity.value]
            /\ last' = Response("restock", pk, "ok")
    /\ UNCHANGED <<tables, resVars, ordVars, payVars, reqVars, today>>

\* Inventory.is_low_stock
is_low_stock(row) == row.quantity <= row.reorder_level

\* The names bound at module level in views.py (its import lines).
ViewsGlobals ==
    {"viewsets", "status", "action", "Response", "IsAuthenticated", "AllowAny",
     "timezone", "Sum", "Count", "Avg", "Q", "datetime", "date", "Decimal",
     "MenuItem", "Table", "Reservation", "Order", "OrderItem", "Payment",
     "Inventory", "MenuItemSerializer", "TableSerializer",
     "ReservationSerializer", "OrderSerializer", "OrderCreateSerializer",
     "OrderItemSerializer", "PaymentSerializer", "PaymentCreateSerializer",
     "InventorySerializer", "DailySalesReportSerializer",
     "TableAvailabilitySerializer"}

\* The response of a listing: its outcome and the primary keys it returns.
Listing(op, result, data) == [op |-> op, id |-> 0, result |-> result, data |-> data]

\* Inventory.objects.filter(quantity__lte=models.F('reorder_level')): the
\* argument is evaluated first, and the name `models` is looked up in the
\* globals of views.py.
LowStockQuery(op) ==
    IF "models" \notin ViewsGlobals
    THEN Listing(op, "NameError", {})
    ELSE Listing(op, "ok", {i \in InventoryIds :
                               inventory[i].quantity <= inventory[i].reorder_level})

\* GET /inventory/low_stock/
low_stock ==
    /\ last' = LowStockQuery("low_stock")
    /\ UNCHANGED <<tables, resVars, ordVars, payVars, invVars, reqVars, today>>

\* GET /reports/inventory_alerts/
inventory_alerts ==
    /\ last' = LowStockQuery("inventory_alerts")
    /\ UNCHANGED <<tables, resVars, ordVars, payVars, invVars, reqVars, today>>

\* ----------------------------------------------------------- ReportViewSet
\* The date changes; Order.timestamp (auto_now_add) takes the new date from
\* then on.
Midnight ==
    /\ today < NumDates
    /\ today' = today + 1
    /\ UNCHANGED <<tables, resVars, ordVars, payVars, invVars, reqVars, last>>

\* Mutant of OrdersOn: cancelled orders are left out of the report.
OrdersOn_not_cancelled(date_param) ==
    {o \in OrderIds : orders[o].date = date_param /\ orders[o].status # "CANCELLED"}

\* Order.objects.filter(timestamp__date=date_param)
OrdersOn(date_param) == {o \in OrderIds : orders[o].date = date_param}

RECURSIVE SumTotalPrice(_)
\* aggregate(Sum('total_price')) over a non-empty set of orders
SumTotalPrice(S) ==
    IF S = {} THEN 0
    ELSE LET o == CHOOSE x \in S : TRUE
         IN  orders[o].total_price + SumTotalPrice(S \ {o})

\* DecimalField(decimal_places=2) in the response: the quotient num / den of
\* an amount in cents by a positive count, quantized to the cent with the
\* decimal module's default rounding, ROUND_HALF_EVEN.
Quantize(num, den) ==
    LET q == num \div den
        r == num - q * den
    IN  IF 2 * r < den THEN q
        ELSE IF 2 * r > den THEN q + 1
        ELSE IF q % 2 = 0 THEN q ELSE q + 1

\* GET /reports/daily_sales/?date=...  (the order figures of the report)
daily_sales(date_param) ==
    /\ LET total_orders  == Cardinality(OrdersOn(date_param))
           \* the aggregate is None for no rows: `or 0`
           total_revenue == IF OrdersOn(date_param) = {} THEN 0
                            ELSE SumTotalPrice(OrdersOn(date_param))
           avg_order_value == IF total_orders > 0
                              THEN Quantize(total_revenue, total_orders)
                              ELSE 0
       IN  last' = [op |-> "daily_sales", id |-> date_param, result |-> "ok",
                    data |-> [total_orders        |-> total_orders,
                              total_revenue       |-> total_revenue,
                              average_order_value |-> avg_order_value]]
    /\ UNCHANGED <<tables, resVars, ordVars, payVars, invVars, reqVars, today>>

\* ------------------------------------------------------------------- specs
\* Table t seats t guests; every table starts available (seed.py).
Init ==
    /\ tables = [t \in TableIds |-> [capacity |-> t, is_available |-> TRUE]]
    /\ reservations = <<>>
    /\ menu = [m \in MenuIds |-> [price |-> 2000, available |-> TRUE]]
    /\ orders = <<>>
    /\ order_items = {}
    /\ next_item_id = 1
    /\ payments = <<>>
    /\ inventory = <<>>
    /\ requests = [r \in RequestIds |-> Idle]
    /\ today = 1
    /\ last = Response("init", 0, "ok")

StatusInputs == RESERVATION_STATUS \cup {NoStatus}

NextRes ==
    \/ \E d \in FullData, st \in StatusInputs : ReservationCreate(d, st)
    \/ \E pk \in ResIds, d \in FullData, st \in StatusInputs : ReservationUpdate(pk, d, st)
    \/ \E pk \in ResIds, d \in PartialData, st \in StatusInputs : ReservationPartialUpdate(pk, d, st)
    \/ \E pk \in ResIds : ReservationCancel(pk)
    \/ \E pk \in ResIds : ReservationComplete(pk)
    \/ \E pk \in TableIds : mark_available(pk)
    \/ \E pk \in TableIds : mark_unavailable(pk)

SpecRes == Init /\ [][NextRes]_vars

\* ---- orders and their items
OrderLines == [menu_item_id : 1..(NumMenu + 1), quantity : Quantities]

OrderPayloads == UNION {[1..n -> OrderLines] : n \in 0..MaxLines}

NextOrd ==
    \/ \E t \in TableIds, items \in OrderPayloads : OrderCreate(t, items)
    \/ \E pk \in OrderIds, m \in 1..(NumMenu + 1), q \in Quantities : add_item(pk, m, q)
    \/ \E pk \in OrderIds, i \in 1..MaxItems : remove_item(pk, i)
    \/ \E pk \in OrderIds, st \in ORDER_STATUS \cup {"DONE"} : update_status(pk, st)
    \/ \E m \in MenuIds, p \in Prices, a \in BOOLEAN : MenuItemUpdate(m, p, a)

SpecOrd == Init /\ [][NextOrd]_vars

\* ---- payments of orders
TransactionIds == {"", "TXN123456"}

\* One line of one available menu item.
SingleLine == {<<[menu_item_id |-> m, quantity |-> 1]>> : m \in MenuIds}

NextPay ==
    \/ \E t \in TableIds, items \in SingleLine : OrderCreate(t, items)
    \/ \E pk \in OrderIds, st \in ORDER_STATUS : update_status(pk, st)
    \/ \E o \in OrderIds : PaymentObjectsCreate(o)
    \/ \E o \in OrderIds, tip \in Tips, d \in Discounts : PaymentCreate(o, tip, d)
    \/ \E pk \in PaymentIds, v \in Tips : PaymentPartialUpdate(pk, "tip_amount", v)
    \/ \E pk \in PaymentIds : PaymentPartialUpdate(pk, "payment_status", "FAILED")
    \/ \E pk \in PaymentIds, tx \in TransactionIds : complete_payment(pk, tx)
    \/ \E pk \in PaymentIds : refund(pk)

SpecPay == Init /\ [][NextPay]_vars

\* ---- payments of orders whose items change
NextPayItems ==
    \/ \E t \in TableIds, items \in SingleLine : OrderCreate(t, items)
    \/ \E o \in OrderIds : PaymentObjectsCreate(o)
    \/ \E pk \in OrderIds, m \in MenuIds, q \in 1..MaxQuantity : add_item(pk, m, q)
    \/ \E pk \in OrderIds, i \in 1..MaxItems : remove_item(pk, i)
    \/ \E pk \in PaymentIds, tx \in TransactionIds : complete_payment(pk, tx)

SpecPayItems == Init /\ [][NextPayItems]_vars

\* ---- complete_payment requests served side by side
NextCompletePayment ==
    \/ \E t \in TableIds, items \in SingleLine : OrderCreate(t, items)
    \/ \E o \in OrderIds : PaymentObjectsCreate(o)
    \/ \E r \in RequestIds, pk \in PaymentIds, tx \in TransactionIds :
        complete_payment_load(r, pk, tx)
    \/ \E r \in RequestIds : complete_payment_save_payment(r)
    \/ \E r \in RequestIds : complete_payment_save_order(r)
    \/ \E r \in RequestIds : complete_payment_save_table(r)
    \/ \E r \in RequestIds : complete_payment_stops(r)

SpecCompletePayment == Init /\ [][NextCompletePayment]_vars

\* ---- reservation creates served side by side
NextReservationRace ==
    \/ \E r \in RequestIds, d \in FullData, st \in StatusInputs :
        reservation_create_validate(r, d, st)
    \/ \E r \in RequestIds : reservation_create_insert(r)
    \/ \E pk \in ResIds : ReservationCancel(pk)

SpecReservationRace == Init /\ [][NextReservationRace]_vars

\* ---- add_item and remove_item requests served side by side
NextItemRace ==
    \/ \E t \in TableIds, items \in SingleLine : OrderCreate(t, items)
    \/ \E r \in RequestIds, pk \in OrderIds, m \in MenuIds :
        add_item_load(r, pk, m, 1)
    \/ \E r \in RequestIds : add_item_create(r)
    \/ \E r \in RequestIds, pk \in OrderIds, i \in 1..MaxItems :
        remove_item_load(r, pk, i)
    \/ \E r \in RequestIds : remove_item_delete(r)
    \/ \E r \in RequestIds : calculate_total_read(r)
    \/ \E r \in RequestIds : calculate_total_save(r)

SpecItemRace == Init /\ [][NextItemRace]_vars

\* ---- the same with status requests; they are the two that close an order
\* and free its table.
NextOrderRace ==
    \/ NextItemRace
    \/ \E r \in RequestIds, pk \in OrderIds, st \in {"SERVED", "CANCELLED"} :
        update_status_load(r, pk, st)
    \/ \E r \in RequestIds : update_status_save(r)
    \/ \E r \in RequestIds : update_status_free_table(r)

SpecOrderRace == Init /\ [][NextOrderRace]_vars

\* ---- the daily sales report over orders of several dates
\* One line of any quantity.
OneLine == {<<[menu_item_id |-> m, quantity |-> q]>> : m \in MenuIds, q \in Quantities}

NextReport ==
    \/ \E t \in TableIds, items \in OneLine : OrderCreate(t, items)
    \/ \E pk \in OrderIds, st \in ORDER_STATUS : update_status(pk, st)
    \/ \E m \in MenuIds, p \in Prices : MenuItemUpdate(m, p, TRUE)
    \/ Midnight
    \/ \E d \in Dates : daily_sales(d)

SpecReport == Init /\ [][NextReport]_vars

\* ---- inventory
NextInv ==
    \/ \E q, l \in StockInputs : InventoryCreate(q, l)
    \/ \E pk \in InventoryIds, f \in {"quantity", "reorder_level"}, v \in StockInputs :
        InventoryPartialUpdate(pk, f, v)
    \/ \E pk \in InventoryIds, c \in RequestNumbers : update_quantity(pk, c)
    \/ \E pk \in InventoryIds, q \in RequestNumbers : restock(pk, q)
    \/ low_stock
    \/ inventory_alerts

SpecInv == Init /\ [][NextInv]_vars

\* ------------------------------------------------------------------ claims

SameSlot(a, b) == a.table = b.table /\ a.date = b.date /\ a.time = b.time

\* C2: no two distinct reservations with status BOOKED have the same
\* (table, date, time), in every state reachable through create, full update,
\* partial update, cancel and complete.
C2_NoDoubleBooking ==
    \A a, b \in ResIds :
        (/\ a # b
         /\ reservations[a].status = "BOOKED"
         /\ reservations[b].status = "BOOKED")
        => ~SameSlot(reservations[a], reservations[b])

\* A BOOKED reservation holds the slot the request asks for.
SlotBooked(d) ==
    \E r \in ResIds :
        /\ reservations[r].status = "BOOKED"
        /\ reservations[r].table = d["table"]
        /\ reservations[r].date = d["date"]
        /\ reservations[r].time = d["time"]

\* C3: a create whose party_size fits the table is rejected, adding no record,
\* exactly when a BOOKED reservation holds the same (table, date, time);
\* CANCELLED and COMPLETED reservations never cause a rejection, and the
\* accepted request is stored, with status BOOKED unless it names another.
C3_CreateRejectedIffSlotBooked ==
    [][last'.op = "reservation_create" =>
       \A d \in FullData, st \in RESERVATION_STATUS \cup {NoStatus} :
        (/\ ReservationCreate(d, st)
         /\ d["party_size"] <= tables[d["table"]].capacity)
        => IF SlotBooked(d)
           THEN /\ last'.result = "already_reserved"
                /\ reservations' = reservations
           ELSE /\ last'.result = "created"
                /\ Len(reservations') = Len(reservations) + 1
                /\ \A r \in ResIds : reservations'[r] = reservations[r]
                /\ LET new == reservations'[Len(reservations')] IN
                   /\ new.table = d["table"]
                   /\ new.date = d["date"]
                   /\ new.time = d["time"]
                   /\ new.party_size = d["party_size"]
                   /\ new.status = IF st = NoStatus THEN "BOOKED" ELSE st]_vars

\* C3 witness: after the first booking of a slot was cancelled, an identical
\* create succeeded and is stored BOOKED.
C3_Witness ==
    /\ last.op = "reservation_create"
    /\ last.result = "created"
    /\ reservations[last.id].status = "BOOKED"
    /\ \E r \in ResIds :
        /\ r < last.id
        /\ reservations[r].status = "CANCELLED"
        /\ SameSlot(reservations[r], reservations[last.id])
        /\ reservations[r].party_size = reservations[last.id].party_size

\* C4: every reservation's party_size is at most the capacity of its table,
\* in every state reachable through create, full update and partial update.
C4_PartyFitsTable ==
    \A r \in ResIds :
        reservations[r].party_size <= tables[reservations[r].table].capacity

\* C5: every payment's stored final_amount equals
\* amount + tip_amount + tax_amount - discount_amount.
C5_FinalAmountDerived ==
    \A p \in PaymentIds :
        payments[p].final_amount =
            payments[p].amount + payments[p].tip_amount
            + payments[p].tax_amount - payments[p].discount_amount

\* C6: a payment create on an order that has no payment and is not CANCELLED
\* succeeds and stores amount = order.total_price, tax_amount = 8% of it,
\* payment_status PENDING and final_amount = amount + tip + tax - discount
\* (20.00 with tip 3.00 and no discount: tax 1.60, final 24.60).
C6_CreatePaymentSucceeds ==
    (/\ last.op = "payment_create"
     /\ last.result \notin {"already_has_payment", "cancelled_order"})
    => /\ last.result = "created"
       /\ LET p == payments[last.id] IN
          /\ p.amount = orders[p.order].total_price
          /\ p.tax_amount * 100 = TaxPercent * p.amount
          /\ p.payment_status = "PENDING"
          /\ p.final_amount = p.amount + p.tip_amount + p.tax_amount - p.discount_amount
          /\ (p.amount = 2000 /\ p.tip_amount = 300 /\ p.discount_amount = 0)
             => (p.tax_amount = 160 /\ p.final_amount = 2460)

\* C7: each order has at most one payment; a payment create for an order that
\* already has one (in any payment_status) is rejected and leaves the payments
\* as they were.
C7_OnePaymentPerOrder ==
    [][/\ \A a, b \in 1..Len(payments') :
            payments'[a].order = payments'[b].order => a = b
       /\ last'.op = "payment_create" =>
          \A o \in OrderIds, tip \in Tips, d \in Discounts :
            (/\ PaymentCreate(o, tip, d)
             /\ \E p \in PaymentIds : payments[p].order = o)
            => /\ last'.result = "already_has_payment"
               /\ payments' = payments]_vars

\* C7 witness: a payment create was refused for an order whose payment is
\* no longer PENDING.
C7_Witness ==
    /\ last.op = "payment_create"
    /\ last.result = "already_has_payment"
    /\ \E p \in PaymentIds : payments[p].payment_status # "PENDING"

\* C8: a payment create for a CANCELLED order is rejected and creates no
\* payment; for an order without payment in any other status the request
\* passes validation (it is not rejected on account of the order).
C8_CancelledOrderRejected ==
    [][last'.op = "payment_create" =>
       \A o \in OrderIds, tip \in Tips, d \in Discounts :
        PaymentCreate(o, tip, d)
        => /\ orders[o].status = "CANCELLED"
              => /\ last'.result \in {"cancelled_order", "already_has_payment"}
                 /\ payments' = payments
           /\ (orders[o].status # "CANCELLED" /\ ~HasPayment(o))
              => last'.result \notin {"cancelled_order", "already_has_payment"}]_vars

\* C8 witness: a payment create was refused because the order is CANCELLED.
C8_Witness ==
    /\ last.op = "payment_create"
    /\ last.result = "cancelled_order"
    /\ \E o \in OrderIds : orders[o].status = "CANCELLED" /\ ~HasPayment(o)

\* C9: a successful complete_payment (payment not yet COMPLETED) ends with the
\* payment COMPLETED, the given transaction_id stored, its order SERVED and
\* that order's table available, and changes no other payment, order or table.
C9_CompletePaymentEffects ==
    [][last'.op = "complete_payment" =>
       \A pk \in PaymentIds, tx \in TransactionIds :
        (/\ complete_payment(pk, tx)
         /\ payments[pk].payment_status # "COMPLETED")
        => LET o == payments[pk].order
               t == orders[o].table
           IN  /\ last'.result = "ok"
               /\ payments'[pk].payment_status = "COMPLETED"
               /\ payments'[pk].transaction_id = tx
               /\ Len(payments') = Len(payments)
               /\ \A q \in PaymentIds \ {pk} : payments'[q] = payments[q]
               /\ orders'[o].status = "SERVED"
               /\ Len(orders') = Len(orders)
               /\ \A q \in OrderIds \ {o} : orders'[q] = orders[q]
               /\ tables'[t].is_available
               /\ \A q \in TableIds \ {t} : tables'[q] = tables[q]]_vars

\* C9 witness: a payment was completed while another order, at another table
\* that stays occupied, is still open.
C9_Witness ==
    /\ last.op = "complete_payment"
    /\ last.result = "ok"
    /\ payments[last.id].payment_status = "COMPLETED"
    /\ payments[last.id].transaction_id = "TXN123456"
    /\ orders[payments[last.id].order].status = "SERVED"
    /\ tables[orders[payments[last.id].order].table].is_available
    /\ \E q \in OrderIds :
        /\ orders[q].status = "PENDING"
        /\ ~tables[orders[q].table].is_available

\* C10: complete_payment on a payment that is already COMPLETED fails and
\* leaves the payment, its order's status and the table's flag unchanged.
C10_CompleteTwiceRejected ==
    [][last'.op = "complete_payment" =>
       \A pk \in PaymentIds, tx \in TransactionIds :
        (/\ complete_payment(pk, tx)
         /\ payments[pk].payment_status = "COMPLETED")
        => /\ last'.result = "already_completed"
           /\ payments' = payments
           /\ orders' = orders
           /\ tables' = tables]_vars

\* C10 witness: a second complete_payment was refused after the order had
\* moved on and its table was taken again.
C10_Witness ==
    /\ last.op = "complete_payment"
    /\ last.result = "already_completed"
    /\ payments[last.id].payment_status = "COMPLETED"
    /\ orders[payments[last.id].order].status # "SERVED"
    /\ ~tables[orders[payments[last.id].order].table].is_available

\* C12: refund on a payment whose payment_status is PENDING, FAILED or
\* REFUNDED fails and leaves the payment, its order and the table unchanged;
\* it succeeds only when payment_status is COMPLETED.
C12_RefundOnlyWhenCompleted ==
    [][last'.op = "refund" =>
       \A pk \in PaymentIds :
        refund(pk)
        => /\ (last'.result = "ok") <=> (payments[pk].payment_status = "COMPLETED")
           /\ payments[pk].payment_status \in {"PENDING", "FAILED", "REFUNDED"}
              => /\ last'.result = "not_completed"
                 /\ payments' = payments
                 /\ orders' = orders
                 /\ tables' = tables]_vars

\* C12 witness: a refund was refused on a FAILED payment whose order is open
\* at an occupied table.
C12_Witness ==
    /\ last.op = "refund"
    /\ last.result = "not_completed"
    /\ payments[last.id].payment_status = "FAILED"
    /\ orders[payments[last.id].order].status = "PENDING"
    /\ ~tables[orders[payments[last.id].order].table].is_available

\* C13: a successful refund sets payment_status to REFUNDED and the order's
\* status to CANCELLED, and leaves every table's is_available flag, the order
\* items, the order's total_price and the payment's amounts unchanged.
C13_RefundEffects ==
    [][last'.op = "refund" =>
       \A pk \in PaymentIds :
        (/\ refund(pk)
         /\ last'.result = "ok")
        => /\ payments' = [payments EXCEPT ![pk].payment_status = "REFUNDED"]
           /\ orders' = [orders EXCEPT ![payments[pk].order].status = "CANCELLED"]
           /\ tables' = tables
           /\ order_items' = order_items]_vars

\* C13 witness: a refund went through while the order's table was occupied
\* again; the table stays occupied.
C13_Witness ==
    /\ last.op = "refund"
    /\ last.result = "ok"
    /\ payments[last.id].payment_status = "REFUNDED"
    /\ orders[payments[last.id].order].status = "CANCELLED"
    /\ orders[payments[last.id].order].total_price > 0
    /\ ~tables[orders[payments[last.id].order].table].is_available

\* C14: SERVED and CANCELLED are terminal: once an order's status is SERVED
\* or CANCELLED, no step of update_status, complete_payment, refund or any
\* other operation changes that order's status.
C14_TerminalStatus ==
    [][\A o \in OrderIds :
        orders[o].status \in {"SERVED", "CANCELLED"}
        => orders'[o].status = orders[o].status]_vars

\* C15: update_status with one of the four statuses sets the order's status
\* to it; for SERVED or CANCELLED it also sets the order's table available,
\* for PENDING or IN_PROGRESS it leaves every table flag unchanged; with any
\* other value it fails and changes neither the order nor the table.  The
\* order items and every total_price are unchanged in all cases.
C15_UpdateStatusEffects ==
    [][last'.op = "update_status" =>
       \A pk \in OrderIds, st \in ORDER_STATUS \cup {"DONE"} :
        update_status(pk, st)
        => /\ order_items' = order_items
           /\ Len(orders') = Len(orders)
           /\ \A o \in OrderIds : orders'[o].total_price = orders[o].total_price
           /\ st \in ORDER_STATUS
              => /\ last'.result = "ok"
                 /\ orders' = [orders EXCEPT ![pk].status = st]
           /\ st \in {"SERVED", "CANCELLED"}
              => tables' = [tables EXCEPT ![orders[pk].table].is_available = TRUE]
           /\ st \in {"PENDING", "IN_PROGRESS"}
              => tables' = tables
           /\ st \notin ORDER_STATUS
              => /\ last'.result = "invalid_status"
                 /\ orders' = orders
                 /\ tables' = tables]_vars

\* C15 witness: an order with items went to IN_PROGRESS and its table is
\* still occupied.
C15_Witness ==
    /\ last.op = "update_status"
    /\ last.result = "ok"
    /\ orders[last.id].status = "IN_PROGRESS"
    /\ ItemsOf(order_items, last.id) # {}
    /\ ~tables[orders[last.id].table].is_available

\* C16: a successful order create adds exactly one order, in status PENDING,
\* with one order item per input line, each item's price equal to the price
\* the referenced menu item has at that moment, total_price equal to the sum
\* of price * quantity over these items, and sets the table's is_available
\* to false; existing orders and items are untouched.
C16_CreateOrderEffects ==
    [][(last'.op = "order_create" /\ last'.result = "created") =>
       \A t \in TableIds, items \in OrderPayloads :
        OrderCreate(t, items)
        => LET pk  == Len(orders) + 1
               new == order_items' \ order_items
           IN  /\ Len(orders') = pk
               /\ \A o \in OrderIds : orders'[o] = orders[o]
               /\ orders'[pk].status = "PENDING"
               /\ orders'[pk].table = t
               /\ order_items \subseteq order_items'
               /\ \A i \in new : i.order = pk
               /\ \E f \in [1..Len(items) -> new] :
                    /\ \A i \in new : \E k \in 1..Len(items) : f[k] = i
                    /\ \A j, k \in 1..Len(items) : f[j].id = f[k].id => j = k
                    /\ \A k \in 1..Len(items) :
                        /\ f[k].menu_item = items[k].menu_item_id
                        /\ f[k].quantity = items[k].quantity
                        /\ f[k].price = menu[items[k].menu_item_id].price
               /\ orders'[pk].total_price = SumSubtotals(new)
               /\ tables' = [tables EXCEPT ![t].is_available = FALSE]]_vars

\* C16 witness: an order of two lines was created after the menu price had
\* changed; its items carry the new price and its table is occupied.
C16_Witness ==
    /\ last.op = "order_create"
    /\ last.result = "created"
    /\ Cardinality(ItemsOf(order_items, last.id)) = 2
    /\ \A i \in ItemsOf(order_items, last.id) : i.price = 499 /\ i.quantity = 2
    /\ orders[last.id].total_price = 1996
    /\ orders[last.id].status = "PENDING"
    /\ ~tables[orders[last.id].table].is_available

\* C17: an order create with an empty item list, or with any line naming a
\* menu item that does not exist or is not available, fails and creates
\* nothing: no order, no order item (none for the valid lines before the bad
\* one either), and every table's is_available is unchanged.
C17_CreateOrderRejected ==
    [][last'.op = "order_create" =>
       \* a create that went through had a non-empty list without a bad line
       /\ last'.result = "created"
          => \A t \in TableIds, items \in OrderPayloads :
              OrderCreate(t, items)
              => /\ items # <<>>
                 /\ \A k \in 1..Len(items) :
                     /\ items[k].menu_item_id \in MenuIds
                     /\ menu[items[k].menu_item_id].available
       \* a refused create wrote nothing
       /\ last'.result # "created"
          => /\ last'.result \in {"empty", "does_not_exist", "unavailable"}
             /\ orders' = orders
             /\ order_items' = order_items
             /\ next_item_id' = next_item_id
             /\ tables' = tables]_vars

\* C17 witness: a create was refused for a missing menu item while an earlier
\* order exists and the other table is still free.
C17_Witness ==
    /\ last.op = "order_create"
    /\ last.result = "does_not_exist"
    /\ Len(orders) = 1
    /\ Cardinality(order_items) = 1
    /\ \E t \in TableIds : tables[t].is_available

\* C18: whenever add_item or remove_item fails (order SERVED or CANCELLED;
\* add_item with a missing or unavailable menu item; remove_item with an item
\* id that does not belong to the order) the items and the total_price of
\* every order are unchanged; remove_item never deletes an item of another
\* order.
C18_FailedItemOpsChangeNothing ==
    [][/\ last'.op = "add_item"
          => \A pk \in OrderIds, m \in 1..(NumMenu + 1), q \in Quantities :
              (/\ add_item(pk, m, q)
               /\ \/ orders[pk].status \in {"SERVED", "CANCELLED"}
                  \/ m \notin MenuIds
                  \/ ~menu[m].available)
              => /\ last'.result \in {"order_closed", "not_found"}
                 /\ order_items' = order_items
                 /\ orders' = orders
       /\ last'.op = "remove_item"
          => \A pk \in OrderIds, id \in 1..MaxItems :
              remove_item(pk, id)
              => /\ \A i \in order_items \ order_items' : i.order = pk /\ i.id = id
                 /\ order_items' \subseteq order_items
                 /\ (\/ orders[pk].status \in {"SERVED", "CANCELLED"}
                     \/ ~\E i \in ItemsOf(order_items, pk) : i.id = id)
                    => /\ last'.result \in {"order_closed", "not_found"}
                       /\ order_items' = order_items
                       /\ orders' = orders]_vars

\* C18 witness: a remove_item on an open order was refused although the other
\* order holds an item; both orders keep their item and their total.
C18_Witness ==
    /\ last.op = "remove_item"
    /\ last.result = "not_found"
    /\ orders[last.id].status = "PENDING"
    /\ Len(orders) = 2
    /\ \A o \in OrderIds :
        /\ Cardinality(ItemsOf(order_items, o)) = 1
        /\ orders[o].total_price > 0

\* C19: an order item's price is fixed when the item is created: a change of
\* the menu item's price or available flag leaves every existing order item
\* and every order's total_price unchanged, and later add_item / remove_item
\* steps keep the stored prices of the remaining items and total them.
C19_ItemPriceFixed ==
    [][/\ \A i \in order_items, j \in order_items' : j.id = i.id => j = i
       /\ \A j \in order_items' \ order_items : j.price = menu[j.menu_item].price
       /\ last'.op = "menu_update"
          => /\ order_items' = order_items
             /\ orders' = orders
       /\ last'.op \in {"add_item", "remove_item"}
          => \A o \in 1..Len(orders') :
              orders'[o].total_price = SumSubtotals(ItemsOf(order_items', o))]_vars

\* C19 witness: an item was added after a price change to an order that
\* holds an item at the old price; the total is the sum of both.
C19_Witness ==
    /\ last.op = "add_item"
    /\ last.result = "created"
    /\ menu[1].price = 499
    /\ {i.price : i \in ItemsOf(order_items, last.id)} = {2000, 499}
    /\ \A i \in ItemsOf(order_items, last.id) : i.quantity = 1
    /\ orders[last.id].total_price = 2499

C11_CompletePaymentAtomic ==
    [][\A p \in PaymentIds :
        (/\ payments[p].payment_status # "COMPLETED"
         /\ payments'[p].payment_status = "COMPLETED")
        => /\ orders'[payments[p].order].status = "SERVED"
           /\ tables'[orders[payments[p].order].table].is_available]_vars

\* C21: restock with a positive quantity q increases the item's quantity by
\* exactly q and changes no other item and no other field; restock with
\* q <= 0 is rejected and leaves the quantity unchanged.
C21_RestockAdds ==
    [][last'.op = "restock" =>
       \A pk \in InventoryIds, q \in RequestNumbers :
        restock(pk, q)
        => IF q.value > 0
           THEN /\ last'.result = "ok"
                /\ inventory' = [inventory EXCEPT
                                   ![pk].quantity = inventory[pk].quantity + q.value]
           ELSE /\ last'.result # "ok"
                /\ inventory' = inventory]_vars

\* C22: inventory_alerts and the low_stock listing return exactly the
\* inventory items with quantity <= reorder_level (equal included, strictly
\* above excluded), which are the items whose is_low_stock is true.
C22_LowStockListing ==
    [][last'.op \in {"low_stock", "inventory_alerts"} =>
       /\ last'.result = "ok"
       /\ last'.data = {i \in InventoryIds : is_low_stock(inventory[i])}]_vars

\* C23: daily_sales for a date returns total_orders = the number of orders
\* created on that date, whatever their status, and total_revenue = the sum
\* of their total_price; with no such order it returns 0 for total_orders,
\* total_revenue and average_order_value, and otherwise average_order_value
\* is total_revenue / total_orders (to the cent); nothing stored changes.
C23_DailySales ==
    [][last'.op = "daily_sales" =>
       \A d \in Dates :
        daily_sales(d)
        => LET S == {o \in OrderIds : orders[o].date = d}
               n == Cardinality(S)
               r == last'.data
           IN  /\ last'.result = "ok"
               /\ r.total_orders = n
               /\ r.total_revenue = SumTotalPrice(S)
               /\ n = 0 => r.total_revenue = 0 /\ r.average_order_value = 0
               /\ n > 0 =>
                    /\ 2 * (r.average_order_value * n - r.total_revenue) <= n
                    /\ 2 * (r.total_revenue - r.average_order_value * n) <= n
               /\ UNCHANGED <<tables, reservations, menu, orders, order_items,
                              next_item_id, payments, inventory, requests, today>>]_vars

\* C23 witness: a report over two orders of the second day, one of them
\* cancelled, while the first day has no order at all.
C23_Witness ==
    /\ last.op = "daily_sales"
    /\ last.id = 2
    /\ last.data.total_orders = 2
    /\ last.data.total_revenue = 2499
    /\ last.data.average_order_value = 1250
    /\ \E o \in OrderIds : orders[o].status = "CANCELLED"
    /\ \A o \in OrderIds : orders[o].date = 2

\* C24: when two reservation creates for the same (table, date, time) run
\* side by side, the check and the insert of each being separate steps, at
\* most one of them ends up stored with status BOOKED: no slot ever holds
\* two BOOKED reservations.
C24_ConcurrentCreateUnique ==
    \A t \in TableIds, d \in Dates, tm \in Times :
        Cardinality({r \in ResIds :
                        /\ reservations[r].status = "BOOKED"
                        /\ reservations[r].table = t
                        /\ reservations[r].date = d
                        /\ reservations[r].time = tm}) <= 1

\* C25: when two add_item / remove_item requests on the same order run side
\* by side, then once both have finished the order's total_price equals the
\* sum of price * quantity over its items.
C25_ConcurrentItemsTotal ==
    (\A r \in RequestIds : requests[r] = Idle)
    => \A o \in OrderIds :
        orders[o].total_price = SumSubtotals(ItemsOf(order_items, o))

\* C30: when update_status runs side by side with add_item / remove_item on
\* the same order, the status it wrote is not overwritten by the whole-record
\* save that recomputes total_price from an order loaded earlier: an order
\* that is SERVED or CANCELLED, its table freed, does not go back to PENDING
\* or IN_PROGRESS.
C30_StatusNotOverwritten ==
    [][\A o \in OrderIds :
        orders[o].status \in {"SERVED", "CANCELLED"}
        => orders'[o].status \in {"SERVED", "CANCELLED"}]_vars

\* C26: every order item created through order create or add_item has a
\* quantity of at least 1, and therefore every order's total_price is
\* non-negative in every reachable state.
C26_QuantityAtLeastOne ==
    /\ \A i \in order_items : i.quantity >= 1
    /\ \A o \in OrderIds : orders[o].total_price >= 0

\* C27: in every state reached through order create, update_status and the
\* payment operations (no mark_available / mark_unavailable), a table with
\* at least one order in status PENDING or IN_PROGRESS has is_available =
\* false.
C27_ActiveOrderOccupiesTable ==
    \A o \in OrderIds :
        orders[o].status \in {"PENDING", "IN_PROGRESS"}
        => ~tables[orders[o].table].is_available

\* C28: through complete_payment and refund a payment's status only moves
\* forward PENDING -> COMPLETED -> REFUNDED: a REFUNDED payment never becomes
\* COMPLETED again.
C28_RefundedStaysRefunded ==
    [][\A p \in PaymentIds :
        payments[p].payment_status = "REFUNDED"
        => payments'[p].payment_status # "COMPLETED"]_vars

\* C29: while a payment is PENDING its amount equals the current total_price
\* of its order, also after add_item or remove_item on that order; hence no
\* payment is completed for an amount that differs from the order's total.
C29_PendingAmountIsOrderTotal ==
    \A p \in PaymentIds :
        payments[p].payment_status = "PENDING"
        => payments[p].amount = orders[payments[p].order].total_price

====
